---- MODULE Spec2Model ----
(***************************************************************************)
(* Model of assets/scripts/ros2_get_filepath_from_package.py.              *)
(*                                                                         *)
(* One run of the script from the call main(sys.argv) to process exit.     *)
(* Strings are sequences of characters, so that printing with a given      *)
(* end= string is an actual concatenation.  Python's 0-based args[i] is    *)
(* the (i+1)-th element of the TLA+ sequence args.                         *)
(*                                                                         *)
(* The environment is: the argument vector, the local filesystem (which    *)
(* paths are regular files, directories, or absent) and the external       *)
(* ros2launch lookup, which on each call either returns some string or     *)
(* raises some error.                                                      *)
(***************************************************************************)
EXTENDS Integers, Sequences, FiniteSets, TLC

\* ---------------------------------------------------------------- bounds
MaxStrLen == 2
MaxArgs == 3

\* ----------------------------------------------------------- environment
Chars == {"a"}

RECURSIVE StringsOfLen(_)
StringsOfLen(n) ==
    IF n = 0 THEN {<<>>}
    ELSE {Append(s, c) : s \in StringsOfLen(n - 1), c \in Chars}

Strings == UNION {StringsOfLen(n) : n \in 0..MaxStrLen}

\* sys.argv[0], the script's own path
ProgName == <<"p">>

\* sys.argv: the program name followed by 0..MaxArgs user arguments
ArgLists ==
    UNION {{<<ProgName>> \o t : t \in [1..n -> Strings]} : n \in 0..MaxArgs}

FileKinds == {"none", "file", "dir"}

\* the empty path never names anything
FileSystems == {f \in [Strings -> FileKinds] : f[<<>>] = "none"}

\* errors the external lookup can raise
LookupErrors == {"PackageNotFoundError", "FileNotFoundError"}

\* what one call of get_share_file_path_from_package can do
LookupOutcomes ==
    {[raised |-> "none", value |-> v] : v \in Strings}
        \cup {[raised |-> e, value |-> <<>>] : e \in LookupErrors}

VARIABLES
    args,          \* the list passed to main
    fs,            \* path -> kind of filesystem object
    pc,            \* position of the run
    mode,          \* local variable mode
    isfileCalls,   \* number of os.path.isfile calls made
    argReads,      \* indices i of the args[i] subscripts evaluated, in order
    lookupCalls,   \* calls made to the external lookup, with their outcome
    retval,        \* value returned by the lookup, once it returned
    stdout,        \* content of standard output
    printCalls,    \* number of print calls that wrote to standard output
    err,           \* the exception propagating out of main, or "none"
    stderr,        \* exception reported on the diagnostic stream, or "none"
    exitCode       \* process exit status, -1 while running

vars == <<args, fs, pc, mode, isfileCalls, argReads, lookupCalls, retval,
          stdout, printCalls, err, stderr, exitCode>>

\* ------------------------------------------------------ pure operations

\* 0 <= i < len(a)
InRange(a, i) == i + 1 <= Len(a)

\* a[i]
Subscript(a, i) == a[i + 1]

\* os.path.isfile(p)
isfile_exists(p) == fs[p] # "none"
isfile(p) == fs[p] = "file"

\* the end= keyword of both print calls
PrintEnd_newline == <<"\n">>
PrintEnd == <<>>

\* print(obj, end=e) on a stream holding out
print(out, obj, e) == out \o obj \o e

\* the object printed in the single-file branch
SingleFileResult_prog(a) == Subscript(a, 0)
SingleFileResult(a) == Subscript(a, 1)

\* the keyword arguments of the delegated call
LookupKwargs_swapped(a) ==
    [package_name |-> Subscript(a, 2), file_name |-> Subscript(a, 1)]
LookupKwargs(a) ==
    [package_name |-> Subscript(a, 1), file_name |-> Subscript(a, 2)]

\* ------------------------------------------------------------------ Init
Init ==
    /\ args \in ArgLists
    /\ fs \in FileSystems
    /\ pc = "main"
    /\ mode = "unset"
    /\ isfileCalls = 0
    /\ argReads = <<>>
    /\ lookupCalls = <<>>
    /\ retval = <<>>
    /\ stdout = <<>>
    /\ printCalls = 0
    /\ err = "none"
    /\ stderr = "none"
    /\ exitCode = -1

\* --------------------------------------------------------------- actions

\* line 6: mode = 'single file'
Enter ==
    /\ pc = "main"
    /\ mode' = "single file"
    /\ pc' = "check"
    /\ UNCHANGED <<args, fs, isfileCalls, argReads, lookupCalls, retval,
                   stdout, printCalls, err, stderr, exitCode>>

\* lines 9-10: if not os.path.isfile(args[1]): mode = 'pkg file'
CheckMode_lenient ==
    /\ pc = "check"
    /\ argReads' = Append(argReads, 1)
    /\ IF ~InRange(args, 1)
         THEN /\ mode' = "pkg file"
              /\ pc' = "branch"
              /\ UNCHANGED <<isfileCalls, err>>
         ELSE /\ isfileCalls' = isfileCalls + 1
              /\ mode' = IF ~isfile(Subscript(args, 1)) THEN "pkg file" ELSE mode
              /\ pc' = "branch"
              /\ UNCHANGED err
    /\ UNCHANGED <<args, fs, lookupCalls, retval, stdout, printCalls,
                   stderr, exitCode>>
CheckMode_byArgCount ==
    /\ pc = "check"
    /\ argReads' = Append(argReads, 1)
    /\ IF ~InRange(args, 1)
         THEN /\ err' = "IndexError"
              /\ pc' = "raised"
              /\ UNCHANGED <<isfileCalls, mode>>
         ELSE /\ isfileCalls' = isfileCalls + 1
              /\ mode' = IF ~isfile(Subscript(args, 1)) \/ InRange(args, 2)
                           THEN "pkg file" ELSE mode
              /\ pc' = "branch"
              /\ UNCHANGED err
    /\ UNCHANGED <<args, fs, lookupCalls, retval, stdout, printCalls,
                   stderr, exitCode>>
CheckMode ==
    /\ pc = "check"
    /\ argReads' = Append(argReads, 1)
    /\ IF ~InRange(args, 1)
         THEN /\ err' = "IndexError"
              /\ pc' = "raised"
              /\ UNCHANGED <<isfileCalls, mode>>
         ELSE /\ isfileCalls' = isfileCalls + 1
              /\ mode' = IF ~isfile(Subscript(args, 1)) THEN "pkg file" ELSE mode
              /\ pc' = "branch"
              /\ UNCHANGED err
    /\ UNCHANGED <<args, fs, lookupCalls, retval, stdout, printCalls,
                   stderr, exitCode>>

\* lines 12-13: if mode == 'single file': print(args[1], end="")
PrintSingle ==
    /\ pc = "branch"
    /\ mode = "single file"
    /\ argReads' = Append(argReads, 1)
    /\ stdout' = print(stdout, SingleFileResult(args), PrintEnd)
    /\ printCalls' = printCalls + 1
    /\ pc' = "returned"
    /\ UNCHANGED <<args, fs, mode, isfileCalls, lookupCalls, retval,
                   err, stderr, exitCode>>

\* lines 14-17: else branch, evaluation of package_name=args[1],
\* file_name=args[2] before the call is made
EvalCallArgs_default ==
    /\ pc = "branch"
    /\ mode # "single file"
    /\ argReads' = argReads \o <<1, 2>>
    /\ IF ~InRange(args, 2)
         THEN /\ retval' = Subscript(args, 1)
              /\ pc' = "print"
         ELSE /\ pc' = "call"
              /\ UNCHANGED retval
    /\ UNCHANGED <<args, fs, mode, isfileCalls, lookupCalls,
                   stdout, printCalls, err, stderr, exitCode>>
EvalCallArgs_callFirst ==
    /\ pc = "branch"
    /\ mode # "single file"
    /\ argReads' = argReads \o <<1, 2>>
    /\ IF ~InRange(args, 2)
         THEN /\ lookupCalls' = Append(lookupCalls,
                    [package_name |-> Subscript(args, 1), file_name |-> <<>>,
                     raised |-> "IndexError", value |-> <<>>])
              /\ err' = "IndexError"
              /\ pc' = "raised"
         ELSE /\ pc' = "call"
              /\ UNCHANGED <<err, lookupCalls>>
    /\ UNCHANGED <<args, fs, mode, isfileCalls, retval,
                   stdout, printCalls, stderr, exitCode>>
EvalCallArgs ==
    /\ pc = "branch"
    /\ mode # "single file"
    /\ argReads' = argReads \o <<1, 2>>
    /\ IF ~InRange(args, 2)
         THEN /\ err' = "IndexError"
              /\ pc' = "raised"
         ELSE /\ pc' = "call"
              /\ UNCHANGED err
    /\ UNCHANGED <<args, fs, mode, isfileCalls, lookupCalls, retval,
                   stdout, printCalls, stderr, exitCode>>

\* lines 15-17: get_share_file_path_from_package(package_name=..,
\* file_name=..) returns a string or raises; nothing catches the error
CallLookup_fallback ==
    /\ pc = "call"
    /\ \E o \in LookupOutcomes :
         /\ lookupCalls' = Append(lookupCalls,
                [package_name |-> LookupKwargs(args).package_name,
                 file_name |-> LookupKwargs(args).file_name,
                 raised |-> o.raised, value |-> o.value])
         /\ retval' = IF o.raised = "none" THEN o.value
                      ELSE Subscript(args, 1)
         /\ pc' = "print"
         /\ UNCHANGED err
    /\ UNCHANGED <<args, fs, mode, isfileCalls, argReads,
                   stdout, printCalls, stderr, exitCode>>
CallLookup ==
    /\ pc = "call"
    /\ \E o \in LookupOutcomes :
         /\ lookupCalls' = Append(lookupCalls,
                [package_name |-> LookupKwargs(args).package_name,
                 file_name |-> LookupKwargs(args).file_name,
                 raised |-> o.raised, value |-> o.value])
         /\ IF o.raised = "none"
              THEN /\ retval' = o.value
                   /\ pc' = "print"
                   /\ UNCHANGED err
              ELSE /\ err' = o.raised
                   /\ pc' = "raised"
                   /\ UNCHANGED retval
    /\ UNCHANGED <<args, fs, mode, isfileCalls, argReads,
                   stdout, printCalls, stderr, exitCode>>

\* lines 15-18: print(<returned value>, end="")
PrintPkg ==
    /\ pc = "print"
    /\ stdout' = print(stdout, retval, PrintEnd)
    /\ printCalls' = printCalls + 1
    /\ pc' = "returned"
    /\ UNCHANGED <<args, fs, mode, isfileCalls, argReads, lookupCalls,
                   retval, err, stderr, exitCode>>

\* line 21: main returned; the interpreter exits with status 0
ExitSuccess ==
    /\ pc = "returned"
    /\ exitCode' = 0
    /\ pc' = "exited"
    /\ UNCHANGED <<args, fs, mode, isfileCalls, argReads, lookupCalls,
                   retval, stdout, printCalls, err, stderr>>

\* line 21: an exception left main; the interpreter reports it on the
\* diagnostic stream and exits with status 1
ExitError_zero ==
    /\ pc = "raised"
    /\ stderr' = err
    /\ exitCode' = 0
    /\ pc' = "exited"
    /\ UNCHANGED <<args, fs, mode, isfileCalls, argReads, lookupCalls,
                   retval, stdout, printCalls, err>>
ExitError ==
    /\ pc = "raised"
    /\ stderr' = err
    /\ exitCode' = 1
    /\ pc' = "exited"
    /\ UNCHANGED <<args, fs, mode, isfileCalls, argReads, lookupCalls,
                   retval, stdout, printCalls, err>>

Next ==
    \/ Enter
    \/ CheckMode
    \/ PrintSingle
    \/ EvalCallArgs
    \/ CallLookup
    \/ PrintPkg
    \/ ExitSuccess
    \/ ExitError

Spec == Init /\ [][Next]_vars

\* The run is one synchronous control flow: every enabled step is taken.
FairSpec == Spec /\ WF_vars(Next)

TypeOK ==
    /\ args \in ArgLists
    /\ fs \in FileSystems
    /\ pc \in {"main", "check", "branch", "call", "print", "returned",
               "raised", "exited"}
    /\ mode \in {"unset", "single file", "pkg file"}
    /\ isfileCalls \in 0..1
    /\ Len(lookupCalls) \in 0..1
    /\ retval \in Strings
    /\ printCalls \in 0..1
    /\ err \in {"none", "IndexError"} \cup LookupErrors
    /\ stderr \in {"none", "IndexError"} \cup LookupErrors
    /\ exitCode \in {-1, 0, 1}


\* ----------------------------------------------------------- properties

\* args[1] was supplied and names an existing regular file
Arg1IsFile == InRange(args, 1) /\ fs[args[2]] = "file"

\* args[1] was supplied and does not name an existing regular file
Arg1NotFile == InRange(args, 1) /\ fs[args[2]] # "file"

\* C1: a run whose args[1] names an existing regular file ends in success
\* and standard output holds exactly args[1], character for character.
C1_LiteralFileIdentity ==
    (pc = "exited" /\ Arg1IsFile)
        => /\ exitCode = 0
           /\ err = "none"
           /\ stdout = args[2]

C1_Witness ==
    /\ pc = "exited"
    /\ Arg1IsFile
    /\ Len(args) = 2
    /\ stdout = args[2]
    /\ stdout # ProgName

\* C2: when args[1] is not an existing file and args[2] is present, the
\* lookup is called with package_name = args[1] and file_name = args[2],
\* and if it returns, standard output holds exactly the returned value.
C2_PackageDelegation ==
    (pc \in {"print", "returned", "raised", "exited"}
        /\ Arg1NotFile /\ InRange(args, 2))
        => /\ Len(lookupCalls) = 1
           /\ lookupCalls[1].package_name = args[2]
           /\ lookupCalls[1].file_name = args[3]
           /\ (pc = "exited" /\ lookupCalls[1].raised = "none")
                => /\ exitCode = 0
                   /\ stdout = lookupCalls[1].value

C2_Witness ==
    /\ pc = "exited"
    /\ Arg1NotFile
    /\ InRange(args, 2)
    /\ args[2] # args[3]
    /\ Len(lookupCalls) = 1
    /\ lookupCalls[1].raised = "none"
    /\ lookupCalls[1].value \notin {args[2], args[3], <<>>}
    /\ stdout = lookupCalls[1].value

\* C3: with args = [prog, a] and a not an existing file, the run ends with
\* an IndexError and a nonzero status, and nothing is ever printed.
C3_MissingFileName ==
    (Len(args) = 2 /\ Arg1NotFile)
        => /\ stdout = <<>>
           /\ printCalls = 0
           /\ pc = "exited" => (err = "IndexError" /\ exitCode # 0)

C3_Witness ==
    /\ pc = "exited"
    /\ Len(args) = 2
    /\ Arg1NotFile
    /\ args[2] # <<>>
    /\ err = "IndexError"
    /\ argReads = <<1, 1, 2>>

\* C4: with args = [prog], reading args[1] fails before any mode is chosen:
\* the file check is never made, neither branch is entered, and the run ends
\* with an IndexError and a nonzero status.
C4_MissingFirstArg ==
    (Len(args) = 1)
        => /\ mode # "pkg file"
           /\ pc \notin {"branch", "call", "print", "returned"}
           /\ isfileCalls = 0
           /\ Len(argReads) <= 1
           /\ printCalls = 0
           /\ lookupCalls = <<>>
           /\ pc = "exited" => (err = "IndexError" /\ exitCode # 0)

C4_Witness ==
    /\ pc = "exited"
    /\ Len(args) = 1
    /\ argReads = <<1>>
    /\ err = "IndexError"
    /\ stderr = "IndexError"

\* C5: once the lookup has raised, the run fails with exactly that error:
\* the lookup is not called again, nothing is printed, and the process
\* reports that same error and exits nonzero.
C5_LookupFailurePropagates ==
    (Len(lookupCalls) >= 1 /\ lookupCalls[1].raised # "none")
        => /\ Len(lookupCalls) = 1
           /\ pc \in {"raised", "exited"}
           /\ err = lookupCalls[1].raised
           /\ stdout = <<>>
           /\ printCalls = 0
           /\ pc = "exited" => (stderr = lookupCalls[1].raised /\ exitCode # 0)

C5_Witness ==
    /\ pc = "exited"
    /\ Len(lookupCalls) = 1
    /\ lookupCalls[1].raised = "FileNotFoundError"
    /\ stderr = "FileNotFoundError"
    /\ args[2] # <<>>

\* the path a successful run resolved
ResolvedPath ==
    IF mode = "single file" THEN args[2] ELSE lookupCalls[1].value

\* C6: a successful run, in either mode, has made exactly one print call,
\* and standard output holds the resolved path and nothing after it.
C6_OutputShape ==
    (pc = "exited" /\ exitCode = 0)
        => /\ printCalls = 1
           /\ stdout = ResolvedPath

C6_Witness ==
    /\ pc = "exited"
    /\ exitCode = 0
    /\ mode = "pkg file"
    /\ printCalls = 1
    /\ Len(stdout) = 2

\* a cause of failure is present at the end of the run
FailureCause ==
    \/ ~InRange(args, 1)
    \/ mode = "pkg file" /\ ~InRange(args, 2)
    \/ Len(lookupCalls) >= 1 /\ lookupCalls[1].raised # "none"

\* C7: every run terminates, with status 0 or a nonzero status; the status
\* is nonzero for every failure cause and zero exactly when a path was
\* printed.
C7_ExitStatus ==
    /\ <>[](pc = "exited")
    /\ [](pc = "exited"
            => /\ exitCode \in {0, 1}
               /\ exitCode = 0 <=> printCalls = 1
               /\ exitCode # 0 <=> FailureCause
               /\ exitCode # 0 <=> stderr # "none")
    /\ [](pc # "exited" => exitCode = -1)

C7_Witness ==
    /\ pc = "exited"
    /\ exitCode = 1
    /\ FailureCause
    /\ printCalls = 0

\* the mode decision has been made
ModeDecided == pc \in {"branch", "call", "print", "returned"}
                 \/ (pc \in {"raised", "exited"} /\ InRange(args, 1))

\* C8: the file check is made at most once and alone decides the mode; the
\* lookup is called at most once, and only when args[1] is not an existing
\* regular file (absent or a directory); never in single-file mode.
C8_ModeDecision ==
    /\ isfileCalls <= 1
    /\ Len(lookupCalls) <= 1
    /\ ModeDecided
         => /\ isfileCalls = 1
            /\ mode = "single file" <=> fs[args[2]] = "file"
            /\ mode = "pkg file" <=> fs[args[2]] \in {"none", "dir"}
    /\ lookupCalls # <<>> => (Arg1NotFile /\ mode = "pkg file")
    /\ mode = "single file" => lookupCalls = <<>>

C8_Witness ==
    /\ pc = "exited"
    /\ InRange(args, 1)
    /\ fs[args[2]] = "dir"
    /\ mode = "pkg file"
    /\ Len(lookupCalls) = 1

\* C9: when args[1] is an existing file the run takes the single-file
\* branch whether or not args[2] is supplied: it succeeds, prints args[1],
\* never evaluates args[2], never calls the lookup and reports no error.
C9_NameFileCollision ==
    Arg1IsFile
        => /\ \A k \in 1..Len(argReads) : argReads[k] # 2
           /\ lookupCalls = <<>>
           /\ err = "none"
           /\ pc = "exited"
                => /\ mode = "single file"
                   /\ exitCode = 0
                   /\ stdout = args[2]
                   /\ stderr = "none"

C9_Witness ==
    /\ pc = "exited"
    /\ Arg1IsFile
    /\ InRange(args, 2)
    /\ args[3] # args[2]
    /\ exitCode = 0
    /\ stdout = args[2]

\* C10: a failing run has written nothing to standard output, the print
\* happens only once the path is resolved, and when args[2] is absent in
\* package mode the lookup is never called.
C10_NoPartialOutput ==
    /\ err # "none" => (stdout = <<>> /\ printCalls = 0)
    /\ pc \in {"main", "check", "branch", "call", "print", "raised"}
         => (stdout = <<>> /\ printCalls = 0)
    /\ (mode = "pkg file" /\ ~InRange(args, 2)) => lookupCalls = <<>>

C10_Witness ==
    /\ pc = "exited"
    /\ mode = "pkg file"
    /\ ~InRange(args, 2)
    /\ err = "IndexError"
    /\ lookupCalls = <<>>
    /\ stdout = <<>>

====
